---------------------------- MODULE Spec2Model ----------------------------
(***************************************************************************)
(* Model of the Gumbo -> libxml2 tree converter of cbsoup                  *)
(* (src/src/as-libxml.c, src/src/data-types.h).                            *)
(*                                                                         *)
(* One call of convert_gumbo_tree_to_libxml_tree is a run of the state     *)
(* machine: the variables are the source parse tree, the options, the      *)
(* traversal stack, the libxml heap (nodes, namespaces, document), the     *)
(* ParseData context and the position in the function.  Names are          *)
(* sequences of one-character strings so that strncmp, strchr and          *)
(* sanitize_name act on them as the C code does.  Every library call that  *)
(* can report failure is counted; one call per run may be made to fail.    *)
(***************************************************************************)
EXTENDS Integers, Sequences, FiniteSets, TLC

(* ------------------------------ bounds -------------------------------- *)
\* number of source nodes below the document in the tree family
MaxNodes == 3
\* number of top-level comments on either side of the root
MaxComments == 2
\* number of attributes on the element under study
MaxAttrs == 2
\* length of the char buffer handed to sanitize_name, its NUL not counted
MaxNameLen == 3
\* calls of sanitize_name on the same buffer
MaxCalls == 2
\* number of attributes on the element converted twice
MaxRepeatAttrs == 3

(* ----------------------------- constants ------------------------------ *)
NULL == 0
\* parent value of a node linked directly under the document
DocParent == -1
MAX_TAG_NAME_SZ == 100
ATTR_BUF_SZ == 50

(* ------------------------------ strings ------------------------------- *)
Lower == {"a","b","c","d","e","f","g","h","i","j","k","l","m",
          "n","o","p","q","r","s","t","u","v","w","x","y","z"}
Upper == {"A","B","C","D","E","F","G","H","I","J","K","L","M",
          "N","O","P","Q","R","S","T","U","V","W","X","Y","Z"}
Digits == {"0","1","2","3","4","5","6","7","8","9"}

S_lang     == <<"l","a","n","g">>
S_xml      == <<"x","m","l">>
S_xlink    == <<"x","l","i","n","k">>
S_xmlns    == <<"x","m","l","n","s">>
S_xml_lang == <<"x","m","l",":","l","a","n","g">>
S_xmlns_us == <<"x","m","l","n","s","_">>
S_div      == <<"d","i","v">>
S_svg      == <<"s","v","g">>
S_id       == <<"i","d">>
S_p_a      == <<"p",":","a">>
S_a        == <<"a">>
S_xmlns_p  == <<"x","m","l","n","s",":","p">>
S_foo_bar  == <<"f","o","o",":","b","a","r">>
S_foo_bar_merged == <<"f","o","o","_","b","a","r">>
S_tag_p_x  == <<"<","p",":","x",">">>
S_at_on    == <<"@","o","n">>
S_p        == <<"p">>
S_x        == <<"x">>
S_href     == <<"h","r","e","f">>
S_xmlns_xlink == <<"x","m","l","n","s",":","x","l","i","n","k">>

XML_XML_NAMESPACE == "http://www.w3.org/XML/1998/namespace"
XLINK_NAMESPACE   == "http://www.w3.org/1999/xlink"

Min(a, b) == IF a < b THEN a ELSE b

\* strncmp(s, p, strlen(p)) == 0
HasPrefix(s, p) == Len(s) >= Len(p) /\ SubSeq(s, 1, Len(p)) = p

\* strchr / memchr: index of the first c in s, 0 when there is none
IndexOf(s, c) ==
    IF \E i \in 1..Len(s) : s[i] = c
    THEN CHOOSE i \in 1..Len(s) : s[i] = c /\ \A j \in 1..(i-1) : s[j] # c
    ELSE 0

\* the tail of s from index i on (the C pointer s + (i-1))
From(s, i) == SubSeq(s, i, Len(s))

VALID_FIRST_CHAR(c) == c \in Lower \/ c \in Upper \/ c = "_"

\* a clamp that forgets the two punctuation bytes
VALID_CHAR_NoPunct(c) == c \in Lower \/ c \in Digits \/ c \in Upper \/ c = "_"

VALID_CHAR(c) == c \in Lower \/ c \in Digits \/ c = "-" \/ c \in Upper
                 \/ c = "_" \/ c = "."

\* sanitize_name: the buffer after the in-place clamp (its length is the
\* returned value)
sanitize_name(name) ==
    [i \in 1..Len(name) |->
        IF i = 1
        THEN IF VALID_FIRST_CHAR(name[i]) THEN name[i] ELSE "_"
        ELSE IF VALID_CHAR(name[i]) THEN name[i] ELSE "_"]


(* --------------------------- source parse tree ------------------------ *)
\* GumboAttribute: name, attr_namespace, value and the original_name slot
\* (its data pointer is either the parser's text, "ORIG", or REPROCESS.data)
Attr(name, space, value) ==
    [name |-> name, attr_namespace |-> space, value |-> value,
     original_name |-> "ORIG"]

A_id       == Attr(S_id, "NONE", "v")
A_lang     == Attr(S_lang, "NONE", "en")
A_xml_lang == Attr(S_xml_lang, "NONE", "fr")
A_lang_xml == Attr(S_lang, "XML", "de")
A_xmlns_p  == Attr(S_xmlns_p, "NONE", "urn:a")
A_p_a      == Attr(S_p_a, "NONE", "x")
A_foo_bar  == Attr(S_foo_bar, "NONE", "y")
A_at_on    == Attr(S_at_on, "NONE", "go")
\* xlink:href as the parser classifies it on a foreign element
A_href     == Attr(S_href, "XLINK", "#t")
\* an author's binding of the xlink prefix, as the parser leaves it on an
\* HTML element and as it classifies it on a foreign element
A_xmlns_xlink == Attr(S_xmlns_xlink, "NONE", "urn:x")
A_xlink_decl  == Attr(S_xlink, "XMLNS", "urn:x")
\* the same prefix bound to another URI, for an ancestor
A_xmlns_p_anc == Attr(S_xmlns_p, "NONE", "urn:b")

AttrCatalogue ==
    {A_id, A_lang, A_xml_lang, A_lang_xml, A_xmlns_p, A_p_a, A_foo_bar,
     A_at_on}

\* attribute lists at most n long
RECURSIVE AttrLists(_)
AttrLists(n) ==
    IF n = 0 THEN {<< >>}
    ELSE LET shorter == AttrLists(n - 1)
         IN shorter \cup
            {Append(l, a) : l \in {s \in shorter : Len(s) = n - 1},
                            a \in AttrCatalogue}

\* the parser keeps one attribute per (name, namespace)
NoRepeat(l) == \A i, j \in 1..Len(l) : i # j => l[i] # l[j]

ElementAttrLists == {l \in AttrLists(MaxAttrs) : NoRepeat(l)}

AncestorAttrLists == {<< >>, <<A_xmlns_p_anc>>, <<A_lang>>}

ElementTypes == {"ELEMENT", "TEMPLATE"}
NodeTypes == {"ELEMENT", "TEMPLATE", "TEXT", "WHITESPACE", "COMMENT", "CDATA"}

\* GumboNode holding a GumboElement
SrcElement(type, parent, children, tag, tagname, original_tag, tns, attrs) ==
    [type |-> type, parent |-> parent, children |-> children,
     tag |-> tag, tagname |-> tagname, original_tag |-> original_tag,
     tag_namespace |-> tns, attributes |-> attrs, line |-> 7]

\* GumboNode holding a GumboText
SrcText(type, parent) ==
    [type |-> type, parent |-> parent, children |-> << >>,
     tag |-> "NONE", tagname |-> << >>, original_tag |-> << >>,
     tag_namespace |-> "HTML", attributes |-> << >>, line |-> 7]

Div(type, parent, children, attrs) ==
    SrcElement(type, parent, children, "STD", S_div,
               <<"<","d","i","v",">">>, "HTML", attrs)

\* the tag variants of an element: a standard HTML tag, an unknown tag with
\* a prefix, a standard tag in the SVG namespace
TagVariants == {"div", "p:x", "svg"}

Tagged(variant, parent, children, attrs) ==
    CASE variant = "div" -> Div("ELEMENT", parent, children, attrs)
      [] variant = "p:x" ->
            SrcElement("ELEMENT", parent, children, "UNKNOWN", << >>,
                       S_tag_p_x, "HTML", attrs)
      [] variant = "svg" ->
            SrcElement("ELEMENT", parent, children, "STD", S_svg,
                       <<"<","s","v","g",">">>, "SVG", attrs)

\* ascending ids i in lo..hi with pv[i] = k
RECURSIVE ChildrenOf(_, _, _, _)
ChildrenOf(pv, k, lo, hi) ==
    IF lo > hi THEN << >>
    ELSE (IF pv[lo] = k THEN <<lo>> ELSE << >>) \o ChildrenOf(pv, k, lo + 1, hi)

\* GumboOutput: the document node (its top-level children and doctype
\* flag), the root, and the nodes by id
Output(nodes, top, has_doctype) ==
    [root |-> 1,
     document |-> [children |-> top, has_doctype |-> has_doctype],
     nodes |-> nodes]

\* trees of n nodes: node 1 is the root element, pv gives each other node's
\* parent, ty its type; only elements have children
TreeOutputs(n) ==
    { Output([i \in 1..n |->
                IF i = 1
                THEN Div("ELEMENT", 0, ChildrenOf(pv, 1, 2, n), << >>)
                ELSE IF ty[i] \in ElementTypes
                     THEN Div(ty[i], pv[i], ChildrenOf(pv, i, 2, n), << >>)
                     ELSE SrcText(ty[i], pv[i])],
             <<1>>, TRUE) :
        <<pv, ty>> \in
          { x \in [2..n -> 1..n] \X [2..n -> NodeTypes] :
              \A i \in 2..n : /\ x[1][i] < i
                              /\ (x[1][i] = 1 \/ x[2][x[1][i]] \in ElementTypes) } }

\* a root alone, with b comments before it and a after it at top level
CommentOutput(b, a, variant, attrs, has_doctype) ==
    Output([i \in 1..(1 + b + a) |->
              IF i = 1 THEN Tagged(variant, 0, << >>, attrs)
              ELSE SrcText("COMMENT", 0)],
           [i \in 1..(1 + b + a) |->
              IF i <= b THEN i + 1 ELSE IF i = b + 1 THEN 1 ELSE i],
           has_doctype)

\* a root and one child element carrying the attributes under study
AttrOutput(rootAttrs, childAttrs) ==
    Output([i \in 1..2 |->
              IF i = 1 THEN Div("ELEMENT", 0, <<2>>, rootAttrs)
              ELSE Div("ELEMENT", 1, << >>, childAttrs)],
           <<1>>, FALSE)

\* a root and one child element, each of some tag variant and with its
\* attributes
PairOutput(rootVariant, rootAttrs, childVariant, childAttrs) ==
    Output([i \in 1..2 |->
              IF i = 1 THEN Tagged(rootVariant, 0, <<2>>, rootAttrs)
              ELSE Tagged(childVariant, 1, << >>, childAttrs)],
           <<1>>, FALSE)

\* Options (data-types.h); use_xhtml_rules is gumbo_opts.use_xhtml_rules
Options(stack_size, keep_doctype, ns_elems, sanitize, line_attr, xhtml) ==
    [stack_size |-> stack_size, keep_doctype |-> keep_doctype,
     namespace_elements |-> ns_elems, sanitize_names |-> sanitize,
     line_number_attr |-> line_attr, use_xhtml_rules |-> xhtml]

StackSizes == {0, 2}

(* ------------------------------- state -------------------------------- *)
VARIABLES
    output,     \* the GumboOutput handed to the call (the caller's tree)
    output0,    \* the GumboOutput as it was when the call began
    opts,       \* the Options handed to the call
    stack,      \* the traversal Stack
    nodes,      \* every xmlNode the call allocated, by id
    nss,        \* every xmlNs the call allocated, by id
    doc,        \* the xmlDoc
    pd,         \* ParseData parse_data
    pc,         \* position in convert_gumbo_tree_to_libxml_tree
    ok,         \* the local flag ok
    returned,   \* the handle the call returned: "doc" or "NULL"
    errmsg,     \* *errmsg as the caller sees it
    injected,   \* whether a library call of this run was made to fail
    first,      \* the target tree an earlier call on this source returned
    run,        \* the number of the call on this source tree: 1 or 2
    sbuf,       \* the char buffer handed to sanitize_name
    slen,       \* the length sanitize_name last returned
    sprev,      \* the buffer and the length before each call made so far
    scalls      \* the number of calls of sanitize_name on sbuf so far

\* the state of one conversion call
conv_vars == <<output, output0, opts, stack, nodes, nss, doc, pd, pc, ok,
               returned, errmsg, injected>>

\* the state around it: earlier calls, and the sanitizer on its own
repeat_vars == <<first, run>>

san_vars == <<sbuf, slen, sprev, scalls>>

vars == <<conv_vars, repeat_vars, san_vars>>

(* ------------------------- the libxml2 heap --------------------------- *)
\* a value and the heap after the call that produced it
R(w, r) == [w |-> w, r |-> r]

\* the prefix of a default namespace declaration (a NULL prefix)
NoPrefix == <<"NULL">>

\* one more library call that can fail; the failAt-th one does
Tick(w) == [w EXCEPT !.calls = @ + 1,
                     !.failed = @ \/ (w.calls + 1 = w.failAt)]

Hit(t) == t.calls = t.failAt

\* a freshly allocated, unlinked xmlNode
NodeRec(type, name, src, line) ==
    [type |-> type, name |-> name, src |-> src, content |-> <<src>>,
     line |-> line, parent |-> NULL, children |-> << >>,
     nsDef |-> << >>, ns |-> NULL, properties |-> << >>, freed |-> 0]

\* xmlNewDocNodeEatName / xmlNewText / xmlNewComment / xmlNewCDataBlock
xmlNewNode(w, type, name, src, line) ==
    LET t == Tick(w)
    IN IF Hit(t) THEN R(t, NULL)
       ELSE R([t EXCEPT !.nodes = Append(@, NodeRec(type, name, src, line))],
              Len(t.nodes) + 1)

\* xmlNewNs: refused when the node already declares the prefix
xmlNewNs(w, node, href, prefix) ==
    LET t == Tick(w)
    IN IF Hit(t) THEN R(t, NULL)
       ELSE IF \E k \in 1..Len(t.nodes[node].nsDef) :
                  t.nss[t.nodes[node].nsDef[k]].prefix = prefix
            THEN R(t, NULL)
            ELSE LET id == Len(t.nss) + 1
                 IN R([t EXCEPT !.nss = Append(@, [prefix |-> prefix, href |-> href]),
                                !.nodes[node].nsDef = Append(@, id)],
                      id)

\* the declaration of prefix among ids, NULL when there is none
FirstDecl(nsTable, ids, prefix) ==
    IF \E k \in 1..Len(ids) : nsTable[ids[k]].prefix = prefix
    THEN ids[CHOOSE k \in 1..Len(ids) :
                /\ nsTable[ids[k]].prefix = prefix
                /\ \A j \in 1..(k - 1) : nsTable[ids[j]].prefix # prefix]
    ELSE NULL

\* the walk of xmlSearchNs from node up through its parents
RECURSIVE SearchUp(_, _, _, _)
SearchUp(w, node, orig, prefix) ==
    IF node = NULL \/ node = DocParent THEN NULL
    ELSE LET n == w.nodes[node]
             d == FirstDecl(w.nss, n.nsDef, prefix)
         IN IF d # NULL THEN d
            ELSE IF orig # node /\ n.ns # NULL /\ w.nss[n.ns].prefix = prefix
                 THEN n.ns
                 ELSE SearchUp(w, n.parent, orig, prefix)

\* xmlSearchNs: the xml prefix is held by the document and declared on
\* first use
xmlSearchNs(w, node, prefix) ==
    IF node = NULL THEN R(w, NULL)
    ELSE IF prefix = S_xml
    THEN IF w.doc.oldNs # NULL THEN R(w, w.doc.oldNs)
         ELSE LET t == Tick(w)
                  id == Len(t.nss) + 1
              IN IF Hit(t) THEN R(t, NULL)
                 ELSE R([t EXCEPT !.nss = Append(@, [prefix |-> S_xml,
                                                     href |-> XML_XML_NAMESPACE]),
                                  !.doc.oldNs = id],
                        id)
    ELSE R(w, SearchUp(w, node, node, prefix))

\* xmlSetNs
xmlSetNs(w, node, ns) == [w EXCEPT !.nodes[node].ns = ns]

\* xmlNewNsPropEatName: appends, whatever the node already carries
xmlNewNsPropEatName(w, node, ns, name, value) ==
    LET t == Tick(w)
    IN IF Hit(t) THEN R(t, NULL)
       ELSE R([t EXCEPT !.nodes[node].properties =
                    Append(@, [name |-> name, ns |-> ns, value |-> value])],
              1)

\* index of the node's first property of that name in no namespace
BareProp(w, node, name) ==
    LET ps == w.nodes[node].properties
    IN IF \E k \in 1..Len(ps) : ps[k].name = name /\ ps[k].ns = NULL
       THEN CHOOSE k \in 1..Len(ps) :
               /\ ps[k].name = name /\ ps[k].ns = NULL
               /\ \A j \in 1..(k - 1) : ~(ps[j].name = name /\ ps[j].ns = NULL)
       ELSE 0

\* xmlSetNsProp(node, NULL, name, value): overwrites the property when the
\* node has it, a failed overwrite leaving it without a value
xmlSetNsProp(w, node, name, value) ==
    LET t == Tick(w)
        k == BareProp(w, node, name)
    IN IF k # 0
       THEN R([t EXCEPT !.nodes[node].properties[k].value =
                            IF Hit(t) THEN "" ELSE value], 1)
       ELSE IF Hit(t) THEN R(t, NULL)
            ELSE R([t EXCEPT !.nodes[node].properties =
                         Append(@, [name |-> name, ns |-> NULL, value |-> value])],
                   1)

\* xmlGetNsProp(node, name, NULL): a copy of the value, "NULL" for none
xmlGetNsProp(w, node, name) ==
    IF node = NULL THEN R(w, "NULL")
    ELSE LET k == BareProp(w, node, name)
             t == Tick(w)
         IN IF k = 0 THEN R(w, "NULL")
            ELSE IF Hit(t) THEN R(t, "NULL")
                 ELSE R(t, w.nodes[node].properties[k].value)

\* xmlAddChild: a text child following a text node is merged into it and
\* released
xmlAddChild(w, parent, child) ==
    LET t == Tick(w)
        kids == t.nodes[parent].children
        last == IF kids = << >> THEN NULL ELSE kids[Len(kids)]
    IN IF Hit(t) THEN R(t, NULL)
       ELSE IF t.nodes[child].type = "text" /\ last # NULL
               /\ t.nodes[last].type = "text"
            THEN R([t EXCEPT !.nodes[last].content = @ \o t.nodes[child].content,
                             !.nodes[child].freed = @ + 1],
                   last)
            ELSE R([t EXCEPT !.nodes[child].parent = parent,
                             !.nodes[parent].children = Append(@, child)],
                   child)

\* the nodes xmlFreeNode reaches from n through the children lists
RECURSIVE Subtree(_, _)
Subtree(ns, n) ==
    {n} \cup UNION {Subtree(ns, ns[n].children[k]) : k \in 1..Len(ns[n].children)}

\* xmlFreeNode: releases the node and its descendants; it does not unlink
xmlFreeNode(w, n) ==
    [w EXCEPT !.nodes = [k \in 1..Len(@) |->
                            IF k \in Subtree(w.nodes, n)
                            THEN [@[k] EXCEPT !.freed = @ + 1]
                            ELSE @[k]]]

\* xmlFreeDoc: releases the document and everything linked under it
xmlFreeDoc(w) ==
    LET under == UNION {Subtree(w.nodes, w.doc.children[k]) :
                           k \in 1..Len(w.doc.children)}
    IN [w EXCEPT !.doc.freed = @ + 1,
                 !.nodes = [k \in 1..Len(@) |->
                               IF k \in under
                               THEN [@[k] EXCEPT !.freed = @ + 1]
                               ELSE @[k]]]

(* ------------------------ namespace resolver -------------------------- *)
\* ensure_xml_ns: pd->xml, looked up from the root (or the node being built
\* while there is no root yet) on first use
ensure_xml_ns(w, node) ==
    LET Cached(s) == R([s.w EXCEPT !.pd.xml = s.r], s.r)
    IN IF w.pd.xml # NULL THEN R(w, w.pd.xml)
       ELSE Cached(xmlSearchNs(w, IF w.pd.root # NULL THEN w.pd.root ELSE node,
                               S_xml))

\* ensure_xlink_ns: pd->xlink, looked up the same way and declared on that
\* root when the lookup finds nothing
ensure_xlink_ns(w, node) ==
    LET root == IF w.pd.root # NULL THEN w.pd.root ELSE node
        Cached(s) == R([s.w EXCEPT !.pd.xlink = s.r], s.r)
        Found(s) == IF s.r # NULL THEN Cached(s)
                    ELSE Cached(xmlNewNs(s.w, root, XLINK_NAMESPACE, S_xlink))
    IN IF w.pd.xlink # NULL THEN R(w, w.pd.xlink)
       ELSE Found(xmlSearchNs(w, root, S_xlink))

\* find_namespace_by_prefix: the node's own scope, then the parent's
find_namespace_by_prefix(w, node, xml_parent, prefix) ==
    LET InParent(a) == IF a.r # NULL THEN a
                       ELSE IF xml_parent = NULL THEN R(a.w, NULL)
                            ELSE xmlSearchNs(a.w, xml_parent, prefix)
    IN InParent(xmlSearchNs(w, node, prefix))

(* ------------------------- attribute builder -------------------------- *)
\* the guard of the two alias branches: if (!added_lang)
AliasAllowed_Always(added_lang) == TRUE

AliasAllowed(added_lang) == added_lang = 0

\* *colon = '_'
MergePrefix_Keep(name, colon) == name

MergePrefix(name, colon) == [name EXCEPT ![colon] = "_"]

\* snprintf(buf, sizeof(buf) - 1, "xmlns_%s", aname + 6)
XmlnsShim(name) ==
    LET full == S_xmlns_us \o From(name, 7)
    IN SubSeq(full, 1, Min(Len(full), ATTR_BUF_SZ - 2))

\* the branches that emit the lang alias and go on to the next attribute
EmitAlias(st, node, value) ==
    LET Made(r) == [st EXCEPT !.w = r.w, !.added_lang = 1, !.ok = (r.r # NULL)]
    IN IF AliasAllowed(st.added_lang)
       THEN Made(xmlNewNsPropEatName(st.w, node, NULL, S_lang, value))
       ELSE st

\* from the xhtml prefix handling to the attachment of the attribute; the
\* name is the source attribute's own buffer (inSrc) or the local buf
EmitAttribute(st, node, e, i, xml_parent, reprocess, inSrc, buf, ns0) ==
    LET w0 == st.w
        attr == w0.src[e].attributes[i]
        name0 == IF inSrc THEN attr.name ELSE buf
        colon == IndexOf(name0, ":")
        prefixed == w0.pd.maybe_xhtml /\ colon # 0 /\ colon < Len(name0)
        Attached(r) == [st EXCEPT !.w = r.w, !.ok = (r.r # NULL)]
        \* t: the heap after xmlDictLookup
        Interned(t, aname, ns) ==
            IF Hit(t) THEN [st EXCEPT !.w = t, !.ok = FALSE]
            ELSE IF t.pd.maybe_xhtml /\ aname = t.pd.lang_attribute
            THEN IF st.added_lang = 2 THEN [st EXCEPT !.w = t]
                 ELSE [st EXCEPT
                         !.w = xmlSetNsProp(t, node, aname, attr.value).w,
                         !.added_lang = 2]
            ELSE Attached(xmlNewNsPropEatName(t, node, ns, aname, attr.value))
        \* f: the heap and the namespace after the prefix lookup
        Resolved(f) ==
            IF prefixed /\ f.r = NULL /\ ~reprocess
            THEN \* mark the attribute for the second pass
                 [st EXCEPT !.w = [f.w EXCEPT
                                !.src[e].attributes[i].original_name = "REPROCESS"],
                            !.needs_reprocess = TRUE]
            ELSE LET name1 == IF prefixed /\ f.r = NULL
                              THEN MergePrefix(name0, colon) ELSE name0
                     off == IF prefixed /\ f.r # NULL THEN colon + 1 ELSE 1
                     aname == IF w0.pd.sanitize_names
                              THEN sanitize_name(From(name1, off))
                              ELSE From(name1, off)
                     name2 == SubSeq(name1, 1, off - 1) \o aname
                 IN Interned(Tick(IF inSrc
                                  THEN [f.w EXCEPT !.src[e].attributes[i].name = name2]
                                  ELSE f.w),
                             aname, f.r)
    IN Resolved(IF prefixed
                THEN find_namespace_by_prefix(w0, node, xml_parent,
                                              SubSeq(name0, 1, colon - 1))
                ELSE R(w0, ns0))

\* one turn of the loop of create_attributes
AttrStep(st, node, e, i, xml_parent, reprocess) ==
    LET w == st.w
        attr == w.src[e].attributes[i]
        aname == attr.name
        \* inSrc: the name is the attribute's own buffer, else the local buf
        Emit(s, inSrc, buf, ns0) ==
            EmitAttribute(s, node, e, i, xml_parent, reprocess, inSrc, buf, ns0)
        Xlink(r) == IF r.r = NULL THEN [st EXCEPT !.w = r.w, !.ok = FALSE]
                    ELSE Emit([st EXCEPT !.w = r.w], TRUE, << >>, r.r)
        Xml(r) == IF r.r = NULL THEN [st EXCEPT !.w = r.w, !.ok = FALSE]
                  ELSE IF w.pd.maybe_xhtml /\ aname = S_lang
                       THEN EmitAlias([st EXCEPT !.w = r.w], node, attr.value)
                       ELSE Emit([st EXCEPT !.w = r.w], TRUE, << >>, r.r)
        XmlnsXlink(r) == [st EXCEPT !.w = r.w, !.ok = (r.r # NULL)]
        \* the name is xmlns:... (aname[5] == ':')
        colonForm == HasPrefix(aname, S_xmlns) /\ Len(aname) > 5 /\ aname[6] = ":"
    IN IF reprocess /\ attr.original_name # "REPROCESS" THEN st
       ELSE CASE attr.attr_namespace = "XLINK" -> Xlink(ensure_xlink_ns(w, node))
              [] attr.attr_namespace = "XML" -> Xml(ensure_xml_ns(w, node))
              [] attr.attr_namespace = "XMLNS" ->
                 IF HasPrefix(aname, S_xlink)
                 THEN XmlnsXlink(ensure_xlink_ns(w, node))
                 ELSE IF HasPrefix(aname, S_xmlns) THEN st
                      ELSE Emit(st, TRUE, << >>, NULL)
              [] OTHER ->
                 IF w.pd.maybe_xhtml /\ HasPrefix(aname, S_xml_lang)
                 THEN EmitAlias(st, node, attr.value)
                 ELSE IF HasPrefix(aname, S_xmlns) /\ Len(aname) = 5 THEN st
                 ELSE IF colonForm /\ Len(aname) = 6 THEN st
                 ELSE IF colonForm /\ w.pd.maybe_xhtml
                 THEN \* the result of xmlNewNs is not looked at
                      [st EXCEPT !.w = xmlNewNs(w, node, attr.value,
                                                From(aname, 7)).w]
                 ELSE IF colonForm
                 THEN Emit(st, FALSE, XmlnsShim(aname), NULL)
                 ELSE Emit(st, TRUE, << >>, NULL)

RECURSIVE AttrLoop(_, _, _, _, _, _)
AttrLoop(st, node, e, i, xml_parent, reprocess) ==
    IF ~st.ok \/ i > Len(st.w.src[e].attributes) THEN st
    ELSE AttrLoop(AttrStep(st, node, e, i, xml_parent, reprocess),
                  node, e, i + 1, xml_parent, reprocess)

\* create_attributes: .ok is its return value, .needs_reprocess the out
\* parameter, .w the heap and the source tree after it
create_attributes(w, node, e, xml_parent, reprocess) ==
    AttrLoop([w |-> w, added_lang |-> 0, needs_reprocess |-> FALSE, ok |-> TRUE],
             node, e, 1, xml_parent, reprocess)

(* --------------------------- element builder -------------------------- *)
\* kLegalXmlns, indexed by the element's namespace tag
kLegalXmlns(tns) ==
    CASE tns = "HTML"   -> "http://www.w3.org/1999/xhtml"
      [] tns = "SVG"    -> "http://www.w3.org/2000/svg"
      [] tns = "MATHML" -> "http://www.w3.org/1998/Math/MathML"

DigitChar(d) == <<"0","1","2","3","4","5","6","7","8","9">>[d + 1]

\* snprintf(buf, ..., "%u", line)
RECURSIVE Decimal(_)
Decimal(n) == IF n < 10 THEN <<DigitChar(n)>>
              ELSE Append(Decimal(n \div 10), DigitChar(n % 10))

\* gumbo_tag_from_original_text: "<name attrs>" or "</name>" cut down to
\* the name, in the element's own original_tag slot
gumbo_tag_from_original_text(text) ==
    IF Len(text) < 2 THEN text
    ELSE IF text[2] = "/" THEN SubSeq(text, 3, Len(text) - 1)
    ELSE LET inner == SubSeq(text, 2, Len(text) - 1)
             cut == IF \E k \in 1..Len(inner) : inner[k] \in {" ", "/"}
                    THEN (CHOOSE k \in 1..Len(inner) :
                            /\ inner[k] \in {" ", "/"}
                            /\ \A j \in 1..(k - 1) : inner[j] \notin {" ", "/"}) - 1
                    ELSE Len(inner)
         IN SubSeq(inner, 1, cut)

\* gumbo_normalize_svg_tagname: the mixed-case spelling of an SVG tag,
\* << >> (NULL) for a tag that has none
gumbo_normalize_svg_tagname(text) ==
    IF text = <<"a","l","t","g","l","y","p","h">>
    THEN <<"a","l","t","G","l","y","p","h">>
    ELSE << >>

\* check_for_namespace_prefix on the first sz bytes of buf: the index of
\* the colon that splits off a prefix, 0 when it returns NULL
check_for_namespace_prefix(buf, sz) ==
    LET colon == IndexOf(SubSeq(buf, 1, sz), ":")
    IN IF colon = 0 \/ colon >= sz THEN 0 ELSE colon

\* lookup_standard_tag: the interned name, cached in pd->standard_tags
lookup_standard_tag(w, name) ==
    LET Looked(t) == IF Hit(t) THEN R(t, << >>)
                     ELSE R([t EXCEPT !.pd.standard_tags = @ \cup {name}], name)
    IN IF name \in w.pd.standard_tags THEN R(w, name) ELSE Looked(Tick(w))

\* the tag resolution of create_element: .w the heap and source after it,
\* .tag_name the interned name (<< >> for NULL), .nsprefix the bytes that
\* nsprefix points at when the attributes are done (<< >> for NULL)
ResolveTag(w, e) ==
    LET elem == w.src[e]
        text == gumbo_tag_from_original_text(elem.original_tag)
        w1 == [w EXCEPT !.src[e].original_tag = text]
        tag_sz == Min(MAX_TAG_NAME_SZ - 1, Len(text))
        buf == SubSeq(text, 1, tag_sz)
        colon == IF w.pd.maybe_xhtml
                 THEN check_for_namespace_prefix(buf, tag_sz) ELSE 0
        tag == From(buf, colon + 1)
        final == IF w.pd.sanitize_names THEN sanitize_name(tag) ELSE tag
        svg == gumbo_normalize_svg_tagname(text)
        \* t: the heap after xmlDictLookup of name
        Interned(t, name, nsprefix) ==
            [w |-> t, tag_name |-> IF Hit(t) THEN << >> ELSE name,
             nsprefix |-> nsprefix]
        Standard(l) == [w |-> l.w, tag_name |-> l.r, nsprefix |-> << >>]
    IN IF elem.tag = "UNKNOWN"
       THEN Interned(Tick(w1), final,
                     IF colon = 0 THEN << >>
                     ELSE IF w.opts.line_number_attr # << >>
                          THEN Decimal(elem.line)
                          ELSE SubSeq(buf, 1, colon - 1))
       ELSE IF elem.tag_namespace = "SVG"
       THEN IF svg = << >> THEN Standard(lookup_standard_tag(w1, elem.tagname))
            ELSE Interned(Tick(w1), svg, << >>)
       ELSE Standard(lookup_standard_tag(w, elem.tagname))

\* the rebinding of the element's namespace to a tag-level prefix
ResolveTagPrefix(w, result, xml_parent, nsprefix) ==
    LET Rebound(b) == IF b.r # NULL THEN xmlSetNs(b.w, result, b.r) ELSE b.w
        InParent(a) == IF a.r = NULL /\ xml_parent # NULL
                       THEN Rebound(xmlSearchNs(a.w, xml_parent, nsprefix))
                       ELSE Rebound(a)
    IN IF nsprefix = << >> THEN w
       ELSE InParent(xmlSearchNs(w, result, nsprefix))

\* if (opts->namespace_elements) { ... }: .r is FALSE on ABORT
ElementNamespace(w, result, xml_parent, parent, e) ==
    LET elem == w.src[e]
        n == xmlNewNs(w, result, kLegalXmlns(elem.tag_namespace), NoPrefix)
    IN IF ~w.opts.namespace_elements THEN R(w, TRUE)
       ELSE IF parent = 0 \/ elem.tag_namespace # w.src[parent].tag_namespace
            THEN IF n.r = NULL THEN R(n.w, FALSE)
                 ELSE R(xmlSetNs(n.w, result, n.r), TRUE)
            ELSE R(xmlSetNs(w, result, w.nodes[xml_parent].ns), TRUE)

\* after the last pass p of create_attributes: the tag-level prefix
ElementPrefix(p, result, xml_parent, nsprefix) ==
    IF ~p.ok THEN R(p.w, FALSE)
    ELSE R(ResolveTagPrefix(p.w, result, xml_parent, nsprefix), TRUE)

\* after the first pass p1 of create_attributes: the second pass when asked
ElementReprocess(p1, result, e, xml_parent, nsprefix) ==
    IF ~p1.ok THEN R(p1.w, FALSE)
    ELSE ElementPrefix(IF p1.needs_reprocess
                       THEN create_attributes(p1.w, result, e, xml_parent, TRUE)
                       ELSE p1,
                       result, xml_parent, nsprefix)

\* after the namespace step n: the attributes
ElementAttributes(n, result, e, xml_parent, nsprefix) ==
    IF ~n.r THEN n
    ELSE ElementReprocess(create_attributes(n.w, result, e, xml_parent, FALSE),
                          result, e, xml_parent, nsprefix)

\* create_element from the namespace step on: the node result exists
ElementBody(w, result, xml_parent, parent, e, nsprefix) ==
    ElementAttributes(ElementNamespace(w, result, xml_parent, parent, e),
                      result, e, xml_parent, nsprefix)

\* the label end of create_element
ElementEnd(body, result) ==
    IF ~body.r THEN R(xmlFreeNode(body.w, result), NULL) ELSE R(body.w, result)

\* after the line number attribute la
ElementNumbered(la, result, xml_parent, parent, e, nsprefix) ==
    IF la.r = NULL THEN R(xmlFreeNode(la.w, result), NULL)
    ELSE ElementEnd(ElementBody(la.w, result, xml_parent, parent, e, nsprefix),
                    result)

\* after xmlNewDocNodeEatName nn: result->line and the line number attribute
ElementCreated(nn, xml_parent, parent, e, nsprefix) ==
    IF nn.r = NULL THEN R(nn.w, NULL)
    ELSE ElementNumbered(IF nn.w.opts.line_number_attr # << >>
                         THEN xmlNewNsPropEatName(nn.w, nn.r, NULL,
                                                  nn.w.opts.line_number_attr,
                                                  Decimal(nn.w.src[e].line))
                         ELSE R(nn.w, 1),
                         nn.r, xml_parent, parent, e, nsprefix)

\* after the tag resolution tg: if (!tag_name) ABORT, then the node
ElementNamed(tg, xml_parent, parent, e) ==
    IF tg.tag_name = << >> THEN R(tg.w, NULL)
    ELSE ElementCreated(xmlNewNode(tg.w, "element", tg.tag_name, e,
                                   tg.w.src[e].line),
                        xml_parent, parent, e, tg.nsprefix)

\* create_element: the new node, NULL after releasing it when a step failed
create_element(w, xml_parent, parent, e) ==
    ElementNamed(ResolveTag(w, e), xml_parent, parent, e)

\* convert_node: .r the new node or NULL
convert_node(w, xml_parent, g) ==
    LET node == w.src[g]
    IN CASE node.type \in {"ELEMENT", "TEMPLATE"} ->
              create_element(w, xml_parent, node.parent, g)
         [] node.type \in {"TEXT", "WHITESPACE"} ->
              xmlNewNode(w, "text", << >>, g, 0)
         [] node.type = "COMMENT" -> xmlNewNode(w, "comment", << >>, g, 0)
         [] node.type = "CDATA" -> xmlNewNode(w, "cdata", << >>, g, 0)
         [] OTHER -> R([w EXCEPT !.pd.errmsg = "unknown gumbo node type"], NULL)

(* --------------------------- traversal stack -------------------------- *)
\* Stack_alloc(sz): capacity sz, no items
Stack_alloc(w, sz) ==
    LET t == Tick(w)
    IN IF Hit(t) THEN R(t, FALSE)
       ELSE R([t EXCEPT !.stack = [allocated |-> TRUE, items |-> << >>,
                                   capacity |-> sz]], TRUE)

\* Stack_push: grows a full stack first, and reports a failed growth
Stack_push(w, gumbo, parent) ==
    LET item == [gumbo |-> gumbo, parent |-> parent]
        t == Tick(w)
    IN IF Len(w.stack.items) < w.stack.capacity
       THEN R([w EXCEPT !.stack.items = Append(@, item)], TRUE)
       ELSE IF Hit(t) THEN R(t, FALSE)
            ELSE R([t EXCEPT !.stack.items = Append(@, item),
                             !.stack.capacity = IF @ = 0 THEN 1 ELSE 2 * @],
                   TRUE)

\* Stack_pop: the heap without the top item (the item is Top)
Top(w) == w.stack.items[Len(w.stack.items)]

Stack_pop(w) == [w EXCEPT !.stack.items = SubSeq(@, 1, Len(@) - 1)]

\* the loop of push_children, from child index i down to the first
RECURSIVE PushChildrenFrom(_, _, _, _)
PushChildrenFrom(w, parent, e, i) ==
    LET Pushed(p) == IF ~p.r THEN R(p.w, FALSE)
                     ELSE PushChildrenFrom(p.w, parent, e, i - 1)
    IN IF i < 1 THEN R(w, TRUE)
       ELSE Pushed(Stack_push(w, w.src[e].children[i], parent))

\* push_children: last child first, so that the first is popped first
push_children(w, parent, e) ==
    PushChildrenFrom(w, parent, e, Len(w.src[e].children))

(* -------------------------- document converter ------------------------ *)
\* the heap, the source tree and the context as one value; failAt is the
\* call of this step that is made to fail (0: none)
World(f) ==
    [src |-> output.nodes, opts |-> opts, stack |-> stack, nodes |-> nodes,
     nss |-> nss, doc |-> doc, pd |-> pd,
     calls |-> 0, failAt |-> f, failed |-> FALSE]

Commit(w) ==
    /\ output' = [output EXCEPT !.nodes = w.src]
    /\ opts' = w.opts
    /\ stack' = w.stack
    /\ nodes' = w.nodes
    /\ nss' = w.nss
    /\ doc' = w.doc
    /\ pd' = w.pd
    /\ injected' = (injected \/ w.failed)

\* the calls of a step that may be made to fail, one per run; r is the
\* outcome of the step when none fails
FailChoices(r) == IF injected THEN {0} ELSE 0..r.w.calls

\* Stack_alloc(opts->stack_size)
StartBody(w) == Stack_alloc(w, w.opts.stack_size)

\* Stack_push(stack, root, NULL): the result is not looked at
SeedBody(w) == R(Stack_push(w, output.root, NULL).w, TRUE)

\* alloc_doc: .r says whether it returned a document
alloc_doc(w) ==
    LET t1 == Tick(w)
        made == [t1 EXCEPT !.doc = [handle |-> TRUE, created |-> TRUE,
                                    children |-> << >>, intSubset |-> FALSE,
                                    oldNs |-> NULL, encoding |-> FALSE,
                                    freed |-> 0]]
        t2 == Tick(made)
        t3 == IF t2.opts.line_number_attr # << >> THEN Tick(t2) ELSE t2
        named == IF t3.opts.line_number_attr # << >> /\ Hit(t3)
                 THEN [t3 EXCEPT !.opts.line_number_attr = << >>] ELSE t3
        t4 == Tick(named)
    IN IF Hit(t1) THEN R(t1, FALSE)
       ELSE IF Hit(t2)
            THEN R([xmlFreeDoc(t2) EXCEPT !.doc.handle = FALSE], FALSE)
            ELSE R([t4 EXCEPT !.doc.encoding = ~Hit(t4)], TRUE)

\* xmlCreateIntSubset when the doctype is kept
DoctypeBody(w) ==
    IF w.opts.keep_doctype /\ output.document.has_doctype
    THEN LET t == Tick(w)
         IN IF Hit(t) THEN R(t, FALSE)
            ELSE R([t EXCEPT !.doc.intSubset = TRUE], TRUE)
    ELSE R(w, TRUE)

\* the set-up of parse_data and the interning of "lang"
SetupBody(w) ==
    LET t == Tick([w EXCEPT !.pd.maybe_xhtml = w.opts.use_xhtml_rules,
                            !.pd.sanitize_names = w.opts.sanitize_names])
    IN IF Hit(t) THEN R(t, FALSE)
       ELSE R([t EXCEPT !.pd.lang_attribute = S_lang], TRUE)

\* after the linking a of the child: push_children for an element
LoopPush(a, child, g) ==
    IF a.r = NULL THEN R(a.w, FALSE)
    ELSE IF a.w.src[g].type \in ElementTypes THEN push_children(a.w, child, g)
         ELSE R(a.w, TRUE)

\* after convert_node c: xmlAddChild under the parent, or the root
LoopLink(c, top) ==
    IF c.r = NULL THEN R(c.w, FALSE)
    ELSE LoopPush(IF top.parent # NULL
                  THEN xmlAddChild(c.w, top.parent, c.r)
                  ELSE R([c.w EXCEPT !.pd.root = c.r], c.r),
                  c.r, top.gumbo)

\* one turn of the while loop
LoopBody(w) ==
    LoopLink(convert_node(Stack_pop(w), Top(w).parent, Top(w).gumbo), Top(w))

\* the mirroring of the root's lang into xml:lang; no result is looked at
MirrorBody(w) ==
    LET Bound(x, root_lang) ==
            IF x.r = NULL THEN R(x.w, TRUE)
            ELSE R(xmlNewNsPropEatName(x.w, x.w.pd.root, x.r,
                                       x.w.pd.lang_attribute, root_lang).w, TRUE)
        Got(g) == IF g.r = "NULL" THEN R(g.w, TRUE)
                  ELSE Bound(ensure_xml_ns(g.w, w.pd.root), g.r)
    IN IF ~w.pd.maybe_xhtml THEN R(w, TRUE)
       ELSE Got(xmlGetNsProp(w, w.pd.root, w.pd.lang_attribute))

\* xmlDocSetRootElement(doc, parse_data.root)
xmlDocSetRootElement(w, root) ==
    IF root = NULL THEN w
    ELSE [w EXCEPT !.nodes[root].parent = DocParent,
                   !.doc.children = Append(@, root)]

\* the insertion with xmlAddSibling on both sides of the root
AddSiblingOfRoot_Append(w, root, c, before_root) ==
    LET t == Tick(w)
    IN IF root = NULL \/ Hit(t) THEN R(t, NULL)
       ELSE R([t EXCEPT !.nodes[c].parent = DocParent,
                        !.doc.children = Append(@, c)],
              c)

\* xmlAddPrevSibling(root, c) / xmlAddSibling(root, c) on a root linked
\* under the document: right before the root, or last of its siblings
AddSiblingOfRoot(w, root, c, before_root) ==
    LET t == Tick(w)
        kids == t.doc.children
        at == CHOOSE k \in 1..Len(kids) : kids[k] = root
    IN IF root = NULL \/ Hit(t) THEN R(t, NULL)
       ELSE R([t EXCEPT !.nodes[c].parent = DocParent,
                        !.doc.children =
                            IF before_root
                            THEN SubSeq(kids, 1, at - 1) \o <<c>> \o From(kids, at)
                            ELSE Append(kids, c)],
              c)

\* the loop of add_root_comments from top-level child i on
RECURSIVE RootCommentsFrom(_, _, _)
RootCommentsFrom(w, i, before_root) ==
    LET top == output.document.children
        Inserted(a, comment) ==
            IF a.r = NULL
            THEN R(xmlFreeNode([a.w EXCEPT !.pd.errmsg =
                                   "Failed to add sibling to root node"], comment),
                   FALSE)
            ELSE RootCommentsFrom(a.w, i + 1, before_root)
        Made(c) ==
            IF c.r = NULL
            THEN R([c.w EXCEPT !.pd.errmsg = "Out of memory allocating comment"],
                   FALSE)
            ELSE Inserted(AddSiblingOfRoot(c.w, c.w.pd.root, c.r, before_root), c.r)
    IN IF i > Len(top) THEN R(w, TRUE)
       ELSE IF top[i] = output.root THEN RootCommentsFrom(w, i + 1, FALSE)
       ELSE IF w.src[top[i]].type # "COMMENT"
            THEN RootCommentsFrom(w, i + 1, before_root)
       ELSE Made(xmlNewNode(w, "comment", << >>, top[i], 0))

\* add_root_comments
add_root_comments(w) == RootCommentsFrom(w, 1, TRUE)

(* ------------------------------- inputs ------------------------------- *)
S_ln == <<"l","n">>

\* trees of every shape and node type, converted with plain options
TreeInputs ==
    { [output |-> o, opts |-> Options(ss, TRUE, ne, FALSE, << >>, FALSE)] :
        o \in UNION {TreeOutputs(n) : n \in 1..MaxNodes},
        ss \in StackSizes, ne \in BOOLEAN }

\* top-level comments around a root
CommentInputs ==
    { [output |-> CommentOutput(b, a, "div", attrs, TRUE),
       opts |-> Options(ss, TRUE, TRUE, FALSE, << >>, xhtml)] :
        b \in 0..MaxComments, a \in 0..MaxComments,
        attrs \in {<< >>, <<A_lang>>},
        ss \in StackSizes, xhtml \in BOOLEAN }

\* the tag variants of a root, with and without line numbers and doctype
TagInputs ==
    { [output |-> CommentOutput(0, 0, variant, << >>, hd),
       opts |-> Options(2, hd, TRUE, sanitize, ln, xhtml)] :
        variant \in TagVariants, hd \in BOOLEAN, sanitize \in BOOLEAN,
        ln \in {<< >>, S_ln}, xhtml \in BOOLEAN }

\* a child element carrying every attribute list, under a root that may
\* bind the same prefix or carry lang
AttrInputs ==
    { [output |-> AttrOutput(anc, l),
       opts |-> Options(2, FALSE, TRUE, sanitize, << >>, xhtml)] :
        anc \in AncestorAttrLists, l \in ElementAttrLists,
        sanitize \in BOOLEAN, xhtml \in BOOLEAN }

\* a prefixed unknown tag as root or as child, under a root that may bind
\* the prefix, with and without line numbers
PrefixInputs ==
    { [output |-> PairOutput(rv, ra, cv, << >>),
       opts |-> Options(2, FALSE, ne, FALSE, ln, xhtml)] :
        rv \in {"div", "p:x"}, ra \in {<< >>, <<A_xmlns_p>>},
        cv \in {"div", "p:x"}, ne \in BOOLEAN,
        ln \in {<< >>, S_ln}, xhtml \in BOOLEAN }

\* the root forms of XlinkInputs: an HTML root, plain or binding the xlink
\* prefix in the unclassified form xmlns:xlink, and a foreign root with the
\* binding or the attribute as the parser classifies them
XlinkRoots ==
    {[variant |-> "div", attrs |-> << >>],
     [variant |-> "div", attrs |-> <<A_xmlns_xlink>>],
     [variant |-> "svg", attrs |-> <<A_xlink_decl>>],
     [variant |-> "svg", attrs |-> <<A_href>>]}

\* an svg child carrying xlink:href, with or without its own binding of the
\* xlink prefix, under each of those roots
XlinkInputs ==
    { [output |-> PairOutput(r.variant, r.attrs, "svg", ca),
       opts |-> Options(2, FALSE, TRUE, FALSE, << >>, xhtml)] :
        r \in XlinkRoots,
        ca \in {<<A_href>>, <<A_xlink_decl, A_href>>, <<A_href, A_xlink_decl>>},
        xhtml \in BOOLEAN }

Inputs ==
    TreeInputs \cup CommentInputs \cup TagInputs \cup AttrInputs
    \cup PrefixInputs \cup XlinkInputs

(* ------------------------------- actions ------------------------------ *)
\* Stack *stack = NULL, xmlDocPtr doc = NULL, ParseData parse_data = {0}
NoStack == [allocated |-> FALSE, items |-> << >>, capacity |-> 0]

NoDoc ==
    [handle |-> FALSE, created |-> FALSE, children |-> << >>,
     intSubset |-> FALSE, oldNs |-> NULL, encoding |-> FALSE, freed |-> 0]

NoParseData ==
    [xlink |-> NULL, xml |-> NULL, root |-> NULL, maybe_xhtml |-> FALSE,
     sanitize_names |-> FALSE, errmsg |-> "NULL", standard_tags |-> {},
     lang_attribute |-> << >>]

\* the locals of convert_gumbo_tree_to_libxml_tree on entry, for the
\* arguments i
Entry(i) ==
    /\ output = i.output /\ opts = i.opts
    /\ output0 = output
    /\ stack = NoStack
    /\ nodes = << >>
    /\ nss = << >>
    /\ doc = NoDoc
    /\ pd = NoParseData
    /\ pc = "start"
    /\ ok = TRUE
    /\ returned = "none"
    /\ errmsg = "unset"
    /\ injected = FALSE

\* no earlier call on this source tree
FirstCall == first = "none" /\ run = 1

\* sanitize_name is not under study
SanitizerIdle == sbuf = << >> /\ slen = 0 /\ sprev = << >> /\ scalls = 0

Init ==
    /\ \E i \in Inputs : Entry(i)
    /\ FirstCall
    /\ SanitizerIdle

\* the outcome r of a step of the function body: on to the next step, or
\* ABORT
Advance(r, to) ==
    /\ Commit(r.w)
    /\ ok' = r.r
    /\ pc' = IF r.r THEN to ELSE "end"

\* *errmsg = NULL; Stack_alloc; return NULL when it failed
Start ==
    /\ pc = "start"
    /\ \E f \in FailChoices(StartBody(World(0))) :
          LET r == StartBody(World(f))
          IN /\ Commit(r.w)
             /\ pc' = IF r.r THEN "seed" ELSE "done"
             /\ returned' = IF r.r THEN returned ELSE "NULL"
    /\ errmsg' = "NULL"
    /\ UNCHANGED <<output0, ok, repeat_vars, san_vars>>

\* Stack_push(stack, root, NULL)
Seed ==
    /\ pc = "seed"
    /\ \E f \in FailChoices(SeedBody(World(0))) :
          Advance(SeedBody(World(f)), "alloc_doc")
    /\ UNCHANGED <<output0, returned, errmsg, repeat_vars, san_vars>>

\* doc = alloc_doc(opts); if (doc == NULL) ABORT
AllocDoc ==
    /\ pc = "alloc_doc"
    /\ \E f \in FailChoices(alloc_doc(World(0))) :
          Advance(alloc_doc(World(f)), "doctype")
    /\ UNCHANGED <<output0, returned, errmsg, repeat_vars, san_vars>>

\* the doctype block
Doctype ==
    /\ pc = "doctype"
    /\ \E f \in FailChoices(DoctypeBody(World(0))) :
          Advance(DoctypeBody(World(f)), "setup")
    /\ UNCHANGED <<output0, returned, errmsg, repeat_vars, san_vars>>

\* parse_data set-up
Setup ==
    /\ pc = "setup"
    /\ \E f \in FailChoices(SetupBody(World(0))) :
          Advance(SetupBody(World(f)), "loop")
    /\ UNCHANGED <<output0, returned, errmsg, repeat_vars, san_vars>>

\* one turn of while (stack->length > 0)
LoopStep ==
    /\ pc = "loop"
    /\ stack.items # << >>
    /\ \E f \in FailChoices(LoopBody(World(0))) :
          Advance(LoopBody(World(f)), "loop")
    /\ UNCHANGED <<output0, returned, errmsg, repeat_vars, san_vars>>

\* the loop is over: the xhtml block after it
MirrorLang ==
    /\ pc = "loop"
    /\ stack.items = << >>
    /\ \E f \in FailChoices(MirrorBody(World(0))) :
          Advance(MirrorBody(World(f)), "set_root")
    /\ UNCHANGED <<output0, returned, errmsg, repeat_vars, san_vars>>

SetRoot ==
    /\ pc = "set_root"
    /\ Commit(xmlDocSetRootElement(World(0), pd.root))
    /\ pc' = "comments"
    /\ UNCHANGED <<output0, ok, returned, errmsg, repeat_vars, san_vars>>

\* if (!add_root_comments(...)) ABORT
AddRootComments ==
    /\ pc = "comments"
    /\ \E f \in FailChoices(add_root_comments(World(0))) :
          Advance(add_root_comments(World(f)), "end")
    /\ UNCHANGED <<output0, returned, errmsg, repeat_vars, san_vars>>

\* whether xmlFreeDoc would walk into a root that xmlFreeNode has released
RootStillLinked ==
    /\ pd.root # NULL
    /\ \E k \in 1..Len(doc.children) : doc.children[k] = pd.root

\* the label end: hand back the message, and on failure release the root
\* and the document.  Releasing the document after a root that is still
\* linked under it walks released memory: the build either releases the
\* subtree a second time or is stopped by the allocator.
End ==
    /\ pc = "end"
    /\ errmsg' = pd.errmsg
    /\ stack' = [stack EXCEPT !.allocated = FALSE]
    /\ LET w0 == World(0)
           w1 == IF pd.root # NULL THEN xmlFreeNode(w0, pd.root) ELSE w0
           w2 == IF doc.handle
                 THEN [xmlFreeDoc(w1) EXCEPT !.doc.handle = FALSE] ELSE w1
       IN IF ok
          THEN /\ returned' = "doc"
               /\ pc' = "done"
               /\ UNCHANGED <<nodes, doc>>
          ELSE \E outcome \in IF doc.handle /\ RootStillLinked
                              THEN {"released_again", "stopped"}
                              ELSE {"released"} :
                  IF outcome = "stopped"
                  THEN /\ nodes' = w1.nodes
                       /\ doc' = doc
                       /\ returned' = returned
                       /\ pc' = "crashed"
                  ELSE /\ nodes' = w2.nodes
                       /\ doc' = w2.doc
                       /\ returned' = "NULL"
                       /\ pc' = "done"
    /\ UNCHANGED <<output, output0, opts, nss, pd, ok, injected, repeat_vars,
                   san_vars>>

Next ==
    \/ Start
    \/ Seed
    \/ AllocDoc
    \/ Doctype
    \/ Setup
    \/ LoopStep
    \/ MirrorLang
    \/ SetRoot
    \/ AddRootComments
    \/ End

Spec == Init /\ [][Next]_vars

(* ----------------------------- properties ----------------------------- *)
\* the call returned a document / returned NULL
Succeeded == pc = "done" /\ returned = "doc"

Failed == pc = "done" /\ returned = "NULL"

\* the source nodes that are elements; all of them hang below the root
SourceElements ==
    {g \in 1..Len(output0.nodes) : output0.nodes[g].type \in ElementTypes}

\* the live target nodes built for source node g
TargetsOf(g) == {n \in 1..Len(nodes) : nodes[n].src = g /\ nodes[n].freed = 0}

Target(g) == CHOOSE n \in TargetsOf(g) : TRUE

\* the live target elements
TargetElements ==
    {n \in 1..Len(nodes) : nodes[n].type = "element" /\ nodes[n].freed = 0}

\* the source attributes of the element that target node n was built for
SourceAttrs(n) == output0.nodes[nodes[n].src].attributes

\* the least member of a non-empty set of indices
FirstOf(S) == CHOOSE i \in S : \A j \in S : i <= j

\* C1: after a successful call every source element has exactly one target
\* node, linked under the target of its source parent (the root under the
\* document), and the children of a target keep the source order.
C1_TreePreserved ==
    Succeeded =>
      /\ \A g \in SourceElements :
            Cardinality({n \in TargetsOf(g) : nodes[n].type = "element"}) = 1
      /\ \A g \in SourceElements :
            IF g = output0.root
            THEN /\ nodes[Target(g)].parent = DocParent
                 /\ IndexOf(doc.children, Target(g)) # 0
            ELSE /\ nodes[Target(g)].parent = Target(output0.nodes[g].parent)
                 /\ IndexOf(nodes[Target(output0.nodes[g].parent)].children,
                            Target(g)) # 0
      /\ \A g \in SourceElements :
            LET kids == output0.nodes[g].children
                built == nodes[Target(g)].children
            IN \A i, j \in 1..Len(kids) :
                  (i < j /\ TargetsOf(kids[i]) # {} /\ TargetsOf(kids[j]) # {})
                  => IndexOf(built, Target(kids[i])) < IndexOf(built, Target(kids[j]))

\* C2: a call in which a step failed returns no document.
C2_AllOrNothing == (pc = "done" /\ injected) => returned = "NULL"

\* C3: a failing call releases every node it built and the document exactly
\* once; no release walks into released memory.
C3_ReleasedOnce ==
    /\ pc # "crashed"
    /\ Failed => /\ \A n \in 1..Len(nodes) : nodes[n].freed = 1
                 /\ doc.created => doc.freed = 1

\* C4: a call reports a message exactly when it returns no document.
C4_OneMessage == pc = "done" => (returned = "NULL" <=> errmsg # "NULL")

\* C5: when the call is over the source tree is as it was when it began.
C5_SourceUntouched == pc = "done" => output = output0

\* the attribute list in the opposite order
Reverse(l) == [i \in 1..Len(l) |-> l[Len(l) + 1 - i]]

\* the namespaces (by URI, "NULL" for none) of the attributes called name on
\* the element a create_element outcome r built
NamespacesOf(r, name) ==
    IF r.r = NULL THEN {"no element"}
    ELSE {IF q.ns = NULL THEN "NULL" ELSE r.w.nss[q.ns].href :
            q \in {r.w.nodes[r.r].properties[k] :
                     k \in {j \in 1..Len(r.w.nodes[r.r].properties) :
                              r.w.nodes[r.r].properties[j].name = name}}}

\* the element about to be built carries p:a and xmlns:p, in either order
PrefixedPairOnTop ==
    /\ pc = "loop"
    /\ stack.items # << >>
    /\ pd.maybe_xhtml
    /\ output.nodes[Top(World(0)).gumbo].attributes
         \in {<<A_p_a, A_xmlns_p>>, <<A_xmlns_p, A_p_a>>}

\* C6: under strict-XHTML rules the element built from p:a and xmlns:p gives
\* the attribute a the same namespace as the element built from the same two
\* attributes in the other order, whatever the ancestors bind.
C6_OrderIndependent ==
    PrefixedPairOnTop =>
      LET top == Top(World(0))
          w == Stack_pop(World(0))
          swapped == [w EXCEPT !.src[top.gumbo].attributes = Reverse(@)]
          parent == w.src[top.gumbo].parent
      IN NamespacesOf(create_element(w, top.parent, parent, top.gumbo), S_a)
         = NamespacesOf(create_element(swapped, top.parent, parent, top.gumbo), S_a)

\* the source elements that carry the attribute foo:bar
FooBarElements ==
    {g \in SourceElements :
       \E i \in 1..Len(output0.nodes[g].attributes) :
          output0.nodes[g].attributes[i] = A_foo_bar}

\* the un-namespaced attributes of target node n whose name is foo:bar or
\* foo_bar
FooBarProps(n) ==
    {q \in {nodes[n].properties[k] : k \in 1..Len(nodes[n].properties)} :
       q.ns = NULL /\ q.name \in {S_foo_bar, S_foo_bar_merged}}

\* C7 (as claimed): with nothing failing, in non-strict mode an attribute
\* foo:bar whose prefix is bound nowhere becomes the attribute foo_bar, and
\* the call succeeds.
C7_MergedInNonStrict ==
    (pc = "done" /\ ~injected /\ ~opts.use_xhtml_rules /\ FooBarElements # {})
    => /\ returned = "doc"
       /\ \A g \in FooBarElements :
             \E n \in TargetsOf(g) :
                \E q \in FooBarProps(n) : q.name = S_foo_bar_merged

\* C7 (amended): with nothing failing the call succeeds, and the attribute
\* is named foo_bar under strict-XHTML rules or when names are sanitized,
\* and keeps the name foo:bar otherwise.
C7_FallbackName ==
    (pc = "done" /\ ~injected /\ FooBarElements # {})
    => /\ returned = "doc"
       /\ \A g \in FooBarElements :
             \E n \in TargetsOf(g) :
                FooBarProps(n) =
                  {[name |-> IF opts.use_xhtml_rules \/ opts.sanitize_names
                             THEN S_foo_bar_merged ELSE S_foo_bar,
                    ns |-> NULL, value |-> A_foo_bar.value]}

\* a strict-mode call without sanitizing has merged foo:bar into foo_bar
C7_Witness ==
    /\ Succeeded /\ ~injected
    /\ opts.use_xhtml_rules /\ ~opts.sanitize_names
    /\ \E g \in FooBarElements :
          \E n \in TargetsOf(g) :
             \E q \in FooBarProps(n) : q.name = S_foo_bar_merged

\* the value of the plain lang attribute of the source root, as a set
RootLangValues ==
    {output0.nodes[output0.root].attributes[i].value :
       i \in {j \in 1..Len(output0.nodes[output0.root].attributes) :
                /\ output0.nodes[output0.root].attributes[j].name = S_lang
                /\ output0.nodes[output0.root].attributes[j].attr_namespace
                     = "NONE"}}

\* C8: under strict-XHTML rules a successful call on a root with lang=v
\* leaves on the target root the bare lang=v and lang=v in the xml namespace.
C8_RootLangMirrored ==
    (Succeeded /\ opts.use_xhtml_rules)
    => \A v \in RootLangValues :
          /\ pd.root # NULL
          /\ \E k \in 1..Len(nodes[pd.root].properties) :
                nodes[pd.root].properties[k] =
                   [name |-> S_lang, ns |-> NULL, value |-> v]
          /\ \E k \in 1..Len(nodes[pd.root].properties) :
                LET q == nodes[pd.root].properties[k]
                IN /\ q.name = S_lang /\ q.value = v /\ q.ns # NULL
                   /\ nss[q.ns] = [prefix |-> S_xml, href |-> XML_XML_NAMESPACE]

\* the source node each top-level target node was built for, in target order
TopSources == [k \in 1..Len(doc.children) |-> nodes[doc.children[k]].src]

\* C9: after a successful call every top-level source comment has one
\* target among the root's siblings, and the top-level targets (comments
\* and root) stand in the order of the source document's child list.
C9_CommentOrder ==
    Succeeded =>
      LET top == output0.document.children
      IN /\ \A i \in 1..Len(top) :
               output0.nodes[top[i]].type = "COMMENT"
               => /\ Cardinality({k \in 1..Len(TopSources) :
                                    TopSources[k] = top[i]}) = 1
                  /\ nodes[doc.children[IndexOf(TopSources, top[i])]].type
                       = "comment"
         /\ \A i, j \in 1..Len(top) :
               (i < j /\ IndexOf(TopSources, top[i]) # 0
                      /\ IndexOf(TopSources, top[j]) # 0)
               => IndexOf(TopSources, top[i]) < IndexOf(TopSources, top[j])

\* a successful call with two comments before the root and one after it
C9_Witness ==
    /\ Succeeded
    /\ Len(output0.document.children) >= 4
    /\ output0.document.children[3] = output0.root
    /\ Len(doc.children) = Len(output0.document.children)
    /\ doc.children[3] = pd.root

\* the un-namespaced lang attributes of target node n
BareLang(n) ==
    {k \in 1..Len(nodes[n].properties) :
       nodes[n].properties[k].name = S_lang /\ nodes[n].properties[k].ns = NULL}

\* the source attributes that can write the bare lang: the plain lang, and
\* the aliases (lang classified xml, and the literal xml:lang)
PlainLangs(attrs) ==
    {i \in 1..Len(attrs) :
       attrs[i].attr_namespace = "NONE" /\ attrs[i].name = S_lang}

LangAliases(attrs) ==
    {i \in 1..Len(attrs) :
       \/ attrs[i].attr_namespace = "XML" /\ attrs[i].name = S_lang
       \/ attrs[i].attr_namespace = "NONE" /\ HasPrefix(attrs[i].name, S_xml_lang)}

NUL == "NUL"

\* the bytes a name buffer holds: letters, a digit, the two punctuation
\* bytes, the underscore, and bytes outside the name alphabet
Bytes == {"a", "Z", "0", "-", ".", "_", ":", "@"}

\* char buffers of MaxNameLen bytes and a final NUL; a NUL further to the
\* front ends the string earlier
Buffers ==
    {b \in [1..(MaxNameLen + 1) -> Bytes \cup {NUL}] : b[MaxNameLen + 1] = NUL}

strlen(buf) == IndexOf(buf, NUL) - 1

\* the bytes of buf before its NUL
CString(buf) == SubSeq(buf, 1, strlen(buf))

\* the value sanitize_name returns: 0 for the empty string, else the index
\* at which its loop, started at 1, meets the NUL
sanitize_name_returns(buf) ==
    IF buf[1] = NUL THEN 0 ELSE IndexOf(From(buf, 2), NUL)

\* the buffer after sanitize_name: the string clamped in place, the NUL and
\* what lies behind it left alone
sanitize_name_leaves(buf) ==
    sanitize_name(CString(buf)) \o From(buf, strlen(buf) + 1)

\* the arguments of a call that never happens
NoCall ==
    [output |-> Output(<< >>, << >>, FALSE),
     opts |-> Options(0, FALSE, FALSE, FALSE, << >>, FALSE)]

SanitizeInit ==
    /\ Entry(NoCall)
    /\ FirstCall
    /\ sbuf \in Buffers
    /\ slen = 0
    /\ sprev = << >>
    /\ scalls = 0

\* one call sanitize_name(sbuf)
Sanitize ==
    /\ scalls < MaxCalls
    /\ sbuf' = sanitize_name_leaves(sbuf)
    /\ slen' = sanitize_name_returns(sbuf)
    /\ sprev' = Append(sprev, [buf |-> sbuf, len |-> slen])
    /\ scalls' = scalls + 1
    /\ UNCHANGED <<conv_vars, repeat_vars>>

SanitizeNext == Sanitize

SpecSanitize == SanitizeInit /\ [][SanitizeNext]_vars

\* the buffer and the returned length after call k
BufAfter(k) == IF k = scalls THEN sbuf ELSE sprev[k + 1].buf

LenAfter(k) == IF k = scalls THEN slen ELSE sprev[k + 1].len

NameStart == Lower \cup Upper \cup {"_"}

NameChar == NameStart \cup Digits \cup {"-", "."}

PlainAttr(a) ==
    /\ a.attr_namespace = "NONE"
    /\ IndexOf(a.name, ":") = 0
    /\ ~HasPrefix(a.name, S_xmlns)
    /\ ~HasPrefix(a.name, S_xml_lang)

\* the name claimed for the target attribute of a plain source attribute
PlainName(a) ==
    IF opts.sanitize_names
    THEN [i \in 1..Len(a.name) |->
            IF a.name[i] \in (IF i = 1 THEN NameStart ELSE NameChar)
            THEN a.name[i] ELSE "_"]
    ELSE a.name

\* the places among the attributes of target node n that hold an attribute
\* called nm in no namespace
PlacesOf(n, nm) ==
    {k \in 1..Len(nodes[n].properties) :
       nodes[n].properties[k].name = nm /\ nodes[n].properties[k].ns = NULL}

\* C12: after a successful call, for every plain source attribute (no
\* colon, no namespace class, not xmlns... or xml:lang...) the target
\* element carries exactly one attribute in no namespace under the input
\* name, or under the sanitized input name when sanitize_names is on, in
\* strict and in non-strict mode.
C12_PlainAttributeOnce ==
    Succeeded =>
      \A g \in SourceElements :
        \A n \in TargetsOf(g) :
          \A i \in 1..Len(output0.nodes[g].attributes) :
            PlainAttr(output0.nodes[g].attributes[i])
            => Cardinality(PlacesOf(n, PlainName(output0.nodes[g].attributes[i]))) = 1

\* C12 with no library call failing
C12_Unfailing == ~injected => C12_PlainAttributeOnce


(* ----------------------------- tag prefixes --------------------------- *)
\* the source elements whose raw tag text is <p:x>
PrefixedElements ==
    {g \in SourceElements : /\ output0.nodes[g].tag = "UNKNOWN"
                            /\ output0.nodes[g].original_tag = S_tag_p_x}

\* the values of the xmlns:p attributes of source element g
OwnBindings(g) ==
    {output0.nodes[g].attributes[i].value :
       i \in {j \in 1..Len(output0.nodes[g].attributes) :
                output0.nodes[g].attributes[j].name = S_xmlns_p}}

\* the URI that prefix p is bound to at source element g: the element's own
\* xmlns:p when it has one, else the nearest ancestor's; "none" when no
\* element up to the root binds it
RECURSIVE BindingAt(_)
BindingAt(g) ==
    IF g = 0 THEN "none"
    ELSE IF OwnBindings(g) # {} THEN CHOOSE u \in OwnBindings(g) : TRUE
    ELSE BindingAt(output0.nodes[g].parent)

\* C13: after a successful strict-XHTML call in which nothing failed, the
\* target of an unknown-tag element written p:x is named x, and when p is
\* bound on the element or on an ancestor the target's namespace is the
\* binding of p, with and without the line_number_attr option.
C13_TagPrefixResolved ==
    (Succeeded /\ ~injected /\ opts.use_xhtml_rules)
    => \A g \in PrefixedElements :
         \A n \in TargetsOf(g) :
            /\ nodes[n].name = S_x
            /\ BindingAt(g) # "none"
               => /\ nodes[n].ns # NULL
                  /\ nss[nodes[n].ns] = [prefix |-> S_p, href |-> BindingAt(g)]

\* C13 for calls without the line_number_attr option
C13_WithoutLineNumbers == opts.line_number_attr = << >> => C13_TagPrefixResolved

(* --------------------------- the xlink binding ------------------------ *)
\* the values pd.xlink takes from one state to the next
XlinkHandleKept == pd.xlink # NULL => pd'.xlink = pd.xlink

\* the attributes of target node n built from xlink-classified source
\* attributes: for each such source attribute, those of its name that are
\* in some namespace
XlinkProps(n) ==
    {q \in {nodes[n].properties[k] : k \in 1..Len(nodes[n].properties)} :
       /\ q.ns # NULL
       /\ \E i \in 1..Len(SourceAttrs(n)) :
             /\ SourceAttrs(n)[i].attr_namespace = "XLINK"
             /\ SourceAttrs(n)[i].name = q.name}

\* source elements carrying an xlink-classified attribute
XlinkElements ==
    {g \in SourceElements :
       \E i \in 1..Len(output0.nodes[g].attributes) :
          output0.nodes[g].attributes[i].attr_namespace = "XLINK"}

\* C14: while no library call has failed, the cached xlink handle, once
\* set, is a binding of the prefix xlink to http://www.w3.org/1999/xlink
\* declared on the root element, and every target attribute built from an
\* xlink-classified source attribute is in it, whatever xmlns:xlink
\* declarations the source carries.
C14_XlinkAuthoritative ==
    (~injected /\ pc \notin {"start", "done"})
    => /\ pd.xlink # NULL
          => /\ nss[pd.xlink] = [prefix |-> S_xlink, href |-> XLINK_NAMESPACE]
             /\ TargetsOf(output0.root) # {}
             /\ IndexOf(nodes[Target(output0.root)].nsDef, pd.xlink) # 0
       /\ \A g \in XlinkElements :
             \A n \in TargetsOf(g) :
                /\ XlinkProps(n) # {}
                /\ \A q \in XlinkProps(n) : q.ns = pd.xlink

\* C14, first part: the cached xlink handle, once set, never changes
C14_HandleSetOnce == [][XlinkHandleKept]_vars


(* ------------------------- element namespaces ------------------------- *)
\* the source elements whose tag carried a prefix that the call resolved:
\* under strict-XHTML rules, those written p:x with p bound in scope
ResolvedPrefixElements ==
    {g \in PrefixedElements : opts.use_xhtml_rules /\ BindingAt(g) # "none"}

\* target node n declares a default namespace
DeclaresDefault(n) == FirstDecl(nss, nodes[n].nsDef, NoPrefix) # NULL

\* C15: after a successful namespace-aware call in which nothing failed,
\* every target element whose tag carried no resolved prefix is in the
\* canonical namespace of its source namespace tag; it declares a default
\* namespace exactly when its source parent is the document or has another
\* namespace tag.
C15_CanonicalNamespace ==
    (Succeeded /\ ~injected /\ opts.namespace_elements)
    => \A g \in SourceElements \ ResolvedPrefixElements :
         \A n \in TargetsOf(g) :
            /\ nodes[n].ns # NULL
            /\ nss[nodes[n].ns].href = kLegalXmlns(output0.nodes[g].tag_namespace)
            /\ DeclaresDefault(n)
               <=> \/ output0.nodes[g].parent = 0
                   \/ output0.nodes[g].tag_namespace
                        # output0.nodes[output0.nodes[g].parent].tag_namespace

\* C15 for elements whose source parent kept its own namespace
C15_UnderUnprefixedParent ==
    (Succeeded /\ ~injected /\ opts.namespace_elements)
    => \A g \in SourceElements \ ResolvedPrefixElements :
         output0.nodes[g].parent \notin ResolvedPrefixElements
         => \A n \in TargetsOf(g) :
               /\ nodes[n].ns # NULL
               /\ nss[nodes[n].ns].href
                    = kLegalXmlns(output0.nodes[g].tag_namespace)


(* ------------------------ two calls on one source --------------------- *)
\* the attributes of the element converted twice: two with a prefix, the
\* binding of one of them, and a plain one
RepeatCatalogue == {A_foo_bar, A_p_a, A_xmlns_p, A_id}

RepeatInputs ==
    { [output |-> AttrOutput(anc, l),
       opts |-> Options(2, FALSE, TRUE, sanitize, << >>, xhtml)] :
        anc \in {<< >>, <<A_xmlns_p_anc>>},
        l \in {x \in AttrLists(MaxRepeatAttrs) :
                 NoRepeat(x) /\ \A i \in 1..Len(x) : x[i] \in RepeatCatalogue},
        sanitize \in BOOLEAN, xhtml \in BOOLEAN }

RepeatInit ==
    /\ \E i \in RepeatInputs : Entry(i)
    /\ FirstCall
    /\ SanitizerIdle

\* the caller keeps the document of a successful call and calls
\* convert_gumbo_tree_to_libxml_tree again with the same GumboOutput and
\* Options, as the first call left them
CallAgain ==
    /\ pc = "done" /\ returned = "doc" /\ run = 1
    /\ first' = [nodes |-> nodes, nss |-> nss, doc |-> doc]
    /\ run' = 2
    /\ output0' = output
    /\ stack' = NoStack
    /\ nodes' = << >>
    /\ nss' = << >>
    /\ doc' = NoDoc
    /\ pd' = NoParseData
    /\ pc' = "start"
    /\ ok' = TRUE
    /\ returned' = "none"
    /\ errmsg' = "unset"
    /\ UNCHANGED <<output, opts, injected, san_vars>>

RepeatNext == Next \/ CallAgain

SpecRepeat == RepeatInit /\ [][RepeatNext]_vars

\* a namespace of the table nsTable by value
NsValue(nsTable, ns) == IF ns = NULL THEN "NULL" ELSE nsTable[ns]

\* the attributes ps by value, each with the number of times it is attached
AttrCounts(nsTable, ps) ==
    LET val(k) == [name |-> ps[k].name, value |-> ps[k].value,
                   ns |-> NsValue(nsTable, ps[k].ns)]
    IN {<<val(k), Cardinality({j \in 1..Len(ps) : val(j) = val(k)})>> :
          k \in 1..Len(ps)}

\* a target tree by value: the document's children and, node by node, the
\* name, links, namespace, declarations and attributes (in any order)
TreeValue(t) ==
    [top |-> t.doc.children,
     nodes |-> [n \in 1..Len(t.nodes) |->
                  [type |-> t.nodes[n].type, name |-> t.nodes[n].name,
                   parent |-> t.nodes[n].parent,
                   children |-> t.nodes[n].children,
                   content |-> t.nodes[n].content,
                   ns |-> NsValue(t.nss, t.nodes[n].ns),
                   nsDef |-> [k \in 1..Len(t.nodes[n].nsDef) |->
                                t.nss[t.nodes[n].nsDef[k]]],
                   attrs |-> AttrCounts(t.nss, t.nodes[n].properties)]]]

\* C16: when two calls made one after the other on the same source tree
\* with the same options both succeed, with no library call failing, the
\* second target tree equals the first (attributes compared in any order);
\* in particular no attribute is attached twice by the second call.
C16_Repeatable ==
    (run = 2 /\ Succeeded /\ ~injected)
    => TreeValue([nodes |-> nodes, nss |-> nss, doc |-> doc]) = TreeValue(first)

\* C16 for source elements on which the first call marked at most one
\* attribute for its second pass
C16_FewMarks ==
    (\A g \in 1..Len(output.nodes) :
        Cardinality({i \in 1..Len(output.nodes[g].attributes) :
                       output.nodes[g].attributes[i].original_name
                         = "REPROCESS"}) <= 1)
    => C16_Repeatable

=============================================================================
